---------------------------- MODULE Spec2Model ----------------------------
(***************************************************************************)
(* A model of toadb (src/main.py): the device registry (pick_serial), the  *)
(* offset-to-zone mapping (etc_gmt_from_offset), the sync policy           *)
(* (sync_once) with its readers and platform appliers, and the daemon loop *)
(* (run_boot_cycle) with the authorization gate (wait_for_authorized).     *)
(*                                                                         *)
(* Python values are represented as follows.  A serial is a TLA+ string;   *)
(* the falsy serial (None or "") is NoSerial.  Text that the code slices   *)
(* or formats (UTC offsets, Etc zone names) is a sequence of one-character *)
(* strings; the falsy text (None or "") is NoText.  Every test the source  *)
(* makes on such values is a truthiness test, so None and "" coincide.     *)
(* Time is counted in ticks of 500 ms, the gate's poll interval.           *)
(***************************************************************************)
EXTENDS Integers, Sequences, FiniteSets, TLC

VARIABLES
    pc,             \* position of the process in main/run_boot_cycle
    env,            \* what the process was started with (mode, env vars, host)
    cfg,            \* the persisted selection: cfg["selected_serial"]
    now,            \* time.monotonic(), in ticks
    start_time,     \* run_boot_cycle: start_time
    had_success,    \* run_boot_cycle: had_success
    devices,        \* run_boot_cycle: devices (the listing of this iteration)
    serial,         \* run_boot_cycle: serial
    last,           \* what the last step of the loop did (sleep, deadline check, sync)
    quiet,          \* sleeps so far while every poll was empty and took no time
    exit_code,      \* the status the process ended with
    exit_reason,    \* which statement ended it
    call            \* a single call of a function on drawn inputs, and its result

vars == <<pc, env, cfg, now, start_time, had_success, devices, serial, last,
          quiet, exit_code, exit_reason, call>>

----------------------------------------------------------------------------
(* Bounds of the model. *)

MaxDevices == 2         \* longest listing drawn for a direct call of pick_serial
MaxOffsetLen == 5       \* longest text drawn as input of etc_gmt_from_offset
MaxEpoch == 2           \* largest epoch second drawn for the phone and the host
MaxThreshold == 2       \* largest DRIFT_THRESHOLD drawn
MaxPollDevices == 1     \* longest listing the device bridge gives the daemon
MaxTime == 24           \* the monotonic clock, in ticks, stops advancing here
MaxBusy == 1            \* most ticks a step's own commands take
MaxOutputLen == 6       \* longest output drawn for the probe of phone_offset_hhmm

----------------------------------------------------------------------------
(* Values. *)

NoSerial == ""
NoText == << >>

Serials == {"A", "B"}
DeviceStates == {"device", "unauthorized", "offline"}

Min(a, b) == IF a <= b THEN a ELSE b
Abs(n) == IF n < 0 THEN -n ELSE n

SeqsUpTo(S, n) == UNION {[1..k -> S] : k \in 0..n}

\* adb_devices() on an installed adb: (serial, state) pairs in listing order.
Device == [serial : Serials, state : DeviceStates]
Listings(n) == SeqsUpTo(Device, n)

SerialsOf(devs) == {devs[i].serial : i \in 1..Len(devs)}

----------------------------------------------------------------------------
(* Device registry. *)

RECURSIVE first_online_device(_)
first_online_device(devs) ==
    IF devs = << >> THEN NoSerial
    ELSE IF Head(devs).state = "device" THEN Head(devs).serial
    ELSE first_online_device(Tail(devs))

\* adb_devices(): the listing, or sys.exit(127) when the adb binary is not found.
adb_devices(found, listing) ==
    IF found THEN [exit |-> FALSE, devs |-> listing]
    ELSE [exit |-> TRUE, devs |-> << >>]

\* A mutant of pick_serial that prefers the first listed serial to the first
\* online one.
pick_serial_first_listed(preferred, saved, found, listing) ==
    IF preferred # NoSerial THEN [exit |-> FALSE, val |-> preferred]
    ELSE LET r == adb_devices(found, listing) IN
         IF r.exit THEN [exit |-> TRUE, val |-> NoSerial]
         ELSE IF saved # NoSerial /\ saved \in SerialsOf(r.devs)
              THEN [exit |-> FALSE, val |-> saved]
         ELSE IF r.devs # << >> THEN [exit |-> FALSE, val |-> r.devs[1].serial]
         ELSE [exit |-> FALSE, val |-> NoSerial]

\* pick_serial(preferred), with what load_cfg() and adb_devices() give it.
pick_serial(preferred, saved, found, listing) ==
    IF preferred # NoSerial THEN [exit |-> FALSE, val |-> preferred]
    ELSE LET r == adb_devices(found, listing)
             online == first_online_device(r.devs)
         IN  IF r.exit THEN [exit |-> TRUE, val |-> NoSerial]
             ELSE IF saved # NoSerial /\ saved \in SerialsOf(r.devs)
                  THEN [exit |-> FALSE, val |-> saved]
             ELSE IF online # NoSerial THEN [exit |-> FALSE, val |-> online]
             ELSE IF r.devs # << >> THEN [exit |-> FALSE, val |-> r.devs[1].serial]
             ELSE [exit |-> FALSE, val |-> NoSerial]

----------------------------------------------------------------------------
(* Text: Python slicing, int(), and the "+d" format. *)

DigitChars == <<"0", "1", "2", "3", "4", "5", "6", "7", "8", "9">>
IsDigit(c) == \E i \in 1..Len(DigitChars) : DigitChars[i] = c
DigitVal(c) == (CHOOSE i \in 1..Len(DigitChars) : DigitChars[i] = c) - 1

\* s[a:b] for 0 <= a <= b.
PySlice(s, a, b) == SubSeq(s, a + 1, Min(b, Len(s)))

RECURSIVE LStrip(_)
LStrip(s) == IF s # << >> /\ Head(s) = " " THEN LStrip(Tail(s)) ELSE s

RECURSIVE RStrip(_)
RStrip(s) ==
    IF s # << >> /\ s[Len(s)] = " " THEN RStrip(SubSeq(s, 1, Len(s) - 1)) ELSE s

RECURSIVE DigitsValue(_)
DigitsValue(s) ==
    IF s = << >> THEN 0
    ELSE 10 * DigitsValue(SubSeq(s, 1, Len(s) - 1)) + DigitVal(s[Len(s)])

\* int(s): surrounding whitespace is dropped, one sign is allowed, and the
\* rest must be one or more digits; anything else raises ValueError.
PyInt(s) ==
    LET t == RStrip(LStrip(s))
        signed == t # << >> /\ Head(t) \in {"+", "-"}
        body == IF signed THEN Tail(t) ELSE t
        ok == body # << >> /\ \A i \in 1..Len(body) : IsDigit(body[i])
    IN  [ok |-> ok,
         val |-> IF ~ok THEN 0
                 ELSE IF signed /\ Head(t) = "-" THEN -DigitsValue(body)
                 ELSE DigitsValue(body)]

RECURSIVE Decimal(_)
Decimal(n) ==
    IF n < 10 THEN <<DigitChars[n + 1]>>
    ELSE Decimal(n \div 10) \o <<DigitChars[(n % 10) + 1]>>

\* format(n, "+d")
FormatSigned(n) == IF n >= 0 THEN <<"+">> \o Decimal(n) ELSE <<"-">> \o Decimal(-n)

\* s.replace("+-", "-")
RECURSIVE ReplacePlusMinus(_)
ReplacePlusMinus(s) ==
    IF Len(s) < 2 THEN s
    ELSE IF s[1] = "+" /\ s[2] = "-"
         THEN <<"-">> \o ReplacePlusMinus(SubSeq(s, 3, Len(s)))
    ELSE <<s[1]>> \o ReplacePlusMinus(Tail(s))

EtcGmt == <<"E", "t", "c", "/", "G", "M", "T">>

\* A mutant of etc_gmt_from_offset that keeps the offset's sign.
etc_gmt_same_sign(hhmm) ==
    IF hhmm = NoText THEN NoText
    ELSE LET sign == IF hhmm[1] = "+" THEN 1 ELSE -1
             hours == PyInt(PySlice(hhmm, 1, 3))
             minutes == PyInt(PySlice(hhmm, 3, 5))
         IN  IF ~hours.ok \/ ~minutes.ok THEN NoText
             ELSE IF minutes.val # 0 THEN NoText
             ELSE ReplacePlusMinus(EtcGmt \o FormatSigned(sign * hours.val))

\* etc_gmt_from_offset(hhmm); NoText is None.  hhmm[0] raises on None and on
\* "", int() raises on a field that is no integer; every raise returns None.
etc_gmt_from_offset(hhmm) ==
    IF hhmm = NoText THEN NoText
    ELSE LET sign == IF hhmm[1] = "+" THEN 1 ELSE -1
             hours == PyInt(PySlice(hhmm, 1, 3))
             minutes == PyInt(PySlice(hhmm, 3, 5))
         IN  IF ~hours.ok \/ ~minutes.ok THEN NoText
             ELSE IF minutes.val # 0 THEN NoText
             ELSE ReplacePlusMinus(EtcGmt \o FormatSigned((-sign) * hours.val))

----------------------------------------------------------------------------
(* Clock and zone reader. *)

\* One shell probe of phone_epoch: it exits 0 and prints digits ("ok"), exits
\* nonzero ("rc"), or exits 0 and prints something else ("nondigit").
ProbeResults == {"ok", "rc", "nondigit"}

\* phone_epoch(serial): the first probe in order that exits 0 with digits.
RECURSIVE phone_epoch(_, _)
phone_epoch(probes, phone) ==
    IF probes = << >> THEN [some |-> FALSE, val |-> 0]
    ELSE IF Head(probes) = "ok" THEN [some |-> TRUE, val |-> phone]
    ELSE phone_epoch(Tail(probes), phone)

\* str.strip() on the characters drawn: spaces and carriage returns go
\* from both ends.
Blank(c) == c \in {" ", "\r"}

RECURSIVE StripLeft(_)
StripLeft(s) == IF s # << >> /\ Blank(Head(s)) THEN StripLeft(Tail(s)) ELSE s

RECURSIVE StripRight(_)
StripRight(s) ==
    IF s # << >> /\ Blank(s[Len(s)]) THEN StripRight(SubSeq(s, 1, Len(s) - 1))
    ELSE s

\* s.replace("\r", "")
RECURSIVE DropReturns(_)
DropReturns(s) ==
    IF s = << >> THEN << >>
    ELSE IF Head(s) = "\r" THEN DropReturns(Tail(s))
    ELSE <<Head(s)>> \o DropReturns(Tail(s))

\* phone_offset_hhmm(serial), the probe having exited 0 (rc_ok) or not and
\* printed stdout; NoText is None.
phone_offset_hhmm(rc_ok, stdout) ==
    LET s == DropReturns(StripRight(StripLeft(stdout)))
    IN  IF rc_ok /\ Len(s) >= 5 /\ s[1] \in {"+", "-"} THEN PySlice(s, 0, 5)
        ELSE NoText

----------------------------------------------------------------------------
(* Privilege elevation. *)

\* elevate_linux(): returns when root; else replaces the process by pkexec
\* or sudo (os.execvp does not return); else sys.exit(1).
elevate_linux(host) ==
    IF host.privileged THEN "return"
    ELSE IF host.pkexec THEN "exec"
    ELSE IF host.sudo THEN "exec"
    ELSE "exit1"

\* elevate_windows(): returns when admin; else starts an elevated copy and
\* sys.exit(0).
elevate_windows(host) == IF host.privileged THEN "return" ELSE "exit0"

----------------------------------------------------------------------------
(* Platform appliers.  Each returns its boolean and the host commands it    *)
(* ran, in order.                                                           *)

NoZone == ""

IANA_TO_WINDOWS ==
    [z \in {"UTC", "Etc/UTC", "America/Los_Angeles", "America/Denver",
            "America/Chicago", "America/New_York", "America/Phoenix",
            "America/Anchorage", "Pacific/Honolulu", "Europe/London",
            "Europe/Berlin", "Europe/Paris", "Europe/Madrid", "Europe/Rome",
            "Europe/Warsaw", "Europe/Moscow", "Asia/Tehran", "Asia/Jerusalem",
            "Asia/Tokyo", "Asia/Seoul", "Asia/Shanghai", "Asia/Hong_Kong",
            "Asia/Kolkata", "Asia/Kathmandu", "Australia/Sydney",
            "Australia/Perth", "America/Sao_Paulo", "America/Bogota",
            "Africa/Cairo", "Africa/Johannesburg"} |->
        CASE z \in {"UTC", "Etc/UTC"} -> "UTC"
          [] z = "America/Los_Angeles" -> "Pacific Standard Time"
          [] z = "America/Denver" -> "Mountain Standard Time"
          [] z = "America/Chicago" -> "Central Standard Time"
          [] z = "America/New_York" -> "Eastern Standard Time"
          [] z = "America/Phoenix" -> "US Mountain Standard Time"
          [] z = "America/Anchorage" -> "Alaskan Standard Time"
          [] z = "Pacific/Honolulu" -> "Hawaiian Standard Time"
          [] z = "Europe/London" -> "GMT Standard Time"
          [] z \in {"Europe/Berlin", "Europe/Rome"} -> "W. Europe Standard Time"
          [] z \in {"Europe/Paris", "Europe/Madrid"} -> "Romance Standard Time"
          [] z = "Europe/Warsaw" -> "Central European Standard Time"
          [] z = "Europe/Moscow" -> "Russian Standard Time"
          [] z = "Asia/Tehran" -> "Iran Standard Time"
          [] z = "Asia/Jerusalem" -> "Israel Standard Time"
          [] z = "Asia/Tokyo" -> "Tokyo Standard Time"
          [] z = "Asia/Seoul" -> "Korea Standard Time"
          [] z \in {"Asia/Shanghai", "Asia/Hong_Kong"} -> "China Standard Time"
          [] z = "Asia/Kolkata" -> "India Standard Time"
          [] z = "Asia/Kathmandu" -> "Nepal Standard Time"
          [] z = "Australia/Sydney" -> "AUS Eastern Standard Time"
          [] z = "Australia/Perth" -> "W. Australia Standard Time"
          [] z = "America/Sao_Paulo" -> "E. South America Standard Time"
          [] z = "America/Bogota" -> "SA Pacific Standard Time"
          [] z = "Africa/Cairo" -> "Egypt Standard Time"
          [] z = "Africa/Johannesburg" -> "South Africa Standard Time"]

\* off_map of set_timezone_windows; "" when the offset is no key.
off_map(off) ==
    CASE off = <<"-", "0", "8", "0", "0">> -> "Pacific Standard Time"
      [] off = <<"-", "0", "7", "0", "0">> -> "Mountain Standard Time"
      [] off = <<"-", "0", "6", "0", "0">> -> "Central Standard Time"
      [] off = <<"-", "0", "5", "0", "0">> -> "Eastern Standard Time"
      [] off = <<"+", "0", "0", "0", "0">> -> "UTC"
      [] off = <<"+", "0", "1", "0", "0">> -> "W. Europe Standard Time"
      [] off = <<"+", "0", "2", "0", "0">> -> "South Africa Standard Time"
      [] off = <<"+", "0", "3", "0", "0">> -> "Russian Standard Time"
      [] off = <<"+", "0", "3", "3", "0">> -> "Iran Standard Time"
      [] off = <<"+", "0", "5", "3", "0">> -> "India Standard Time"
      [] off = <<"+", "0", "9", "0", "0">> -> "Tokyo Standard Time"
      [] OTHER -> ""

\* set_timezone_linux(tz_id, off).  e.tdc: timedatectl is on PATH; e.id_ok /
\* e.etc_ok: timedatectl set-timezone exits 0 for the IANA id / the Etc zone;
\* e.zonefile: the zone file exists; e.link: what linking does ("ok"; "ln_failed":
\* ln exits nonzero, which is not looked at; "ln_raised": running ln raises;
\* "write_raised": writing /etc/timezone raises after ln ran).
set_timezone_linux(tz_id, off, e) ==
    LET try1 == tz_id # NoZone /\ e.tdc
        ok1 == try1 /\ e.id_ok
        try2 == tz_id # NoZone /\ ~ok1 /\ e.zonefile
        ok2 == try2 /\ e.link \in {"ok", "ln_failed"}
        etc_name == IF off # NoText THEN etc_gmt_from_offset(off) ELSE NoText
        try3 == ~ok1 /\ ~ok2 /\ off # NoText /\ etc_name # NoText /\ e.tdc
        ok3 == try3 /\ e.etc_ok
    IN  [ok |-> ok1 \/ ok2 \/ ok3,
         cmds |-> (IF try1 THEN <<"timedatectl_set_timezone_id">> ELSE << >>)
                  \o (IF try2 THEN <<"link_zonefile">> ELSE << >>)
                  \o (IF try3 THEN <<"timedatectl_set_timezone_etc">> ELSE << >>),
         changed |-> ok1 \/ (try2 /\ e.link \in {"ok", "write_raised"}) \/ ok3]

\* set_timezone_windows(tz_id, off).  e.ps_tz_ok: the Set-TimeZone command
\* exits 0 and prints OK.
set_timezone_windows(tz_id, off, e) ==
    LET t1 == IF tz_id # NoZone /\ tz_id \in DOMAIN IANA_TO_WINDOWS
              THEN IANA_TO_WINDOWS[tz_id] ELSE ""
        target == IF t1 = "" /\ off # NoText THEN off_map(off) ELSE t1
    IN  IF target = "" THEN [ok |-> FALSE, cmds |-> << >>, changed |-> FALSE]
        ELSE [ok |-> e.ps_tz_ok, cmds |-> <<"powershell_set_timezone">>,
              changed |-> e.ps_tz_ok]

\* A mutant of set_time_linux_epoch that returns at once when date fails.
set_time_linux_epoch_early_return(epoch, e) ==
    [ok |-> e.date_ok,
     cmds |-> (IF e.tdc THEN <<"set_ntp_false">> ELSE << >>)
              \o <<"date_set">>
              \o (IF e.tdc /\ e.date_ok THEN <<"set_ntp_true">> ELSE << >>)]

\* set_time_linux_epoch(epoch).  e.date_ok: date -u -s exits 0.  The exit
\* status of timedatectl set-ntp is not read.
set_time_linux_epoch(epoch, e) ==
    [ok |-> e.date_ok,
     cmds |-> (IF e.tdc THEN <<"set_ntp_false">> ELSE << >>)
              \o <<"date_set">>
              \o (IF e.tdc THEN <<"set_ntp_true">> ELSE << >>)]

\* set_time_windows_epoch(epoch).  e.ps_date_ok: the Set-Date command exits 0.
set_time_windows_epoch(epoch, e) ==
    [ok |-> e.ps_date_ok,
     cmds |-> <<"stop_w32time", "set_date", "start_w32time">>]

----------------------------------------------------------------------------
(* Sync policy. *)

\* A mutant of needs_time_change with an exclusive boundary.
needs_time_change_strict(drift, thr) == Abs(drift) > thr

\* sync_once: abs(drift) >= drift_threshold
needs_time_change(drift, thr) == Abs(drift) >= thr

\* A mutant of classify that logs a failed time step as a success.
classify_time_blind(ok_tz, ok_time) == IF ok_tz THEN "both" ELSE "time_only"

\* sync_once: which of the four closing messages is logged.
classify(ok_tz, ok_time) ==
    IF ok_tz /\ ok_time THEN "both"
    ELSE IF ok_tz /\ ~ok_time THEN "tz_only"
    ELSE IF ~ok_tz /\ ok_time THEN "time_only"
    ELSE "neither"

\* A mutant of sync_apply in which a failed timezone step skips the time step.
sync_apply_tz_gates_time(i, phone_ts) ==
    LET drift == phone_ts - i.host_ts
        w == i.host.windows
        elev == IF w THEN elevate_windows(i.host) ELSE elevate_linux(i.host)
        tz == IF w THEN set_timezone_windows(i.tz_id, i.off, i.e)
              ELSE set_timezone_linux(i.tz_id, i.off, i.e)
        need == tz.ok /\ needs_time_change(drift, i.thr)
        tm == IF ~need THEN [ok |-> TRUE, cmds |-> << >>]
              ELSE IF w THEN set_time_windows_epoch(phone_ts, i.e)
              ELSE set_time_linux_epoch(phone_ts, i.e)
    IN  IF elev # "return"
        THEN [outcome |-> elev, ret |-> FALSE, calls |-> <<"elevate">>,
              cmds |-> << >>, log |-> "none", ok_tz |-> TRUE, ok_time |-> TRUE,
              clock |-> i.host_ts]
        ELSE [outcome |-> "return", ret |-> tz.ok /\ tm.ok,
              calls |-> <<"elevate", "set_timezone">>
                        \o (IF need THEN <<"set_time">> ELSE << >>),
              cmds |-> tz.cmds \o tm.cmds,
              log |-> classify(tz.ok, tm.ok), ok_tz |-> tz.ok, ok_time |-> tm.ok,
              clock |-> IF need /\ tm.ok THEN phone_ts ELSE i.host_ts]

\* sync_once from its elevation call on, the phone epoch being phone_ts.
\* outcome "return": it returned ret; "exit0", "exit1": the elevation call
\* ended the process with that status; "exec": it replaced the process.
\* calls: the elevation and applier calls made, in order ("elevate" is
\* elevate_linux or elevate_windows, and so on); cmds: the host commands
\* the appliers ran; clock: the host clock afterwards.
sync_apply(i, phone_ts) ==
    LET drift == phone_ts - i.host_ts
        w == i.host.windows
        elev == IF w THEN elevate_windows(i.host) ELSE elevate_linux(i.host)
        tz == IF w THEN set_timezone_windows(i.tz_id, i.off, i.e)
              ELSE set_timezone_linux(i.tz_id, i.off, i.e)
        need == needs_time_change(drift, i.thr)
        tm == IF ~need THEN [ok |-> TRUE, cmds |-> << >>]
              ELSE IF w THEN set_time_windows_epoch(phone_ts, i.e)
              ELSE set_time_linux_epoch(phone_ts, i.e)
    IN  IF elev # "return"
        THEN [outcome |-> elev, ret |-> FALSE, calls |-> <<"elevate">>,
              cmds |-> << >>, log |-> "none", ok_tz |-> TRUE, ok_time |-> TRUE,
              clock |-> i.host_ts]
        ELSE [outcome |-> "return", ret |-> tz.ok /\ tm.ok,
              calls |-> <<"elevate", "set_timezone">>
                        \o (IF need THEN <<"set_time">> ELSE << >>),
              cmds |-> tz.cmds \o tm.cmds,
              log |-> classify(tz.ok, tm.ok), ok_tz |-> tz.ok, ok_time |-> tm.ok,
              clock |-> IF need /\ tm.ok THEN phone_ts ELSE i.host_ts]

\* A mutant of sync_once that goes on with epoch 0 when no probe answered.
sync_once_unchecked_epoch(i) ==
    sync_apply(i, phone_epoch(i.probes, i.phone).val)

\* sync_once(serial, drift_threshold) on inputs i: what the probes answer
\* (probes, phone), the host clock (host_ts), the threshold (thr), the host
\* (host), what the zone readers returned (tz_id, off) and how the host's
\* commands behave (e).
sync_once(i) ==
    LET pe == phone_epoch(i.probes, i.phone)
    IN  IF ~pe.some
        THEN [outcome |-> "return", ret |-> FALSE, calls |-> << >>,
              cmds |-> << >>, log |-> "epoch_failed", ok_tz |-> TRUE,
              ok_time |-> TRUE,
              clock |-> i.host_ts]
        ELSE sync_apply(i, pe.val)

----------------------------------------------------------------------------
(* Commands.  Each returns the status main passes to sys.exit and the      *)
(* persisted selection it leaves.                                           *)

\* cmd_list(): 127 from adb_devices() without adb, 1 on an empty listing.
cmd_list(found, listing) ==
    IF adb_devices(found, listing).exit THEN 127
    ELSE IF adb_devices(found, listing).devs = << >> THEN 1
    ELSE 0

\* A mutant of cmd_device that persists the last listed serial for a
\* position past the end, still returning 1.
cmd_device_clamps(args, found, listing, relisting, saved) ==
    LET r == adb_devices(found, listing)
        idx == PyInt(args[1])
    IN  IF r.exit THEN [code |-> 127, cfg |-> saved]
        ELSE IF r.devs = << >> THEN [code |-> 1, cfg |-> saved]
        ELSE IF args = << >> THEN [code |-> cmd_list(found, relisting), cfg |-> saved]
        ELSE IF ~idx.ok THEN [code |-> 1, cfg |-> saved]
        ELSE IF idx.val < 1 THEN [code |-> 1, cfg |-> saved]
        ELSE IF idx.val > Len(r.devs)
             THEN [code |-> 1, cfg |-> r.devs[Len(r.devs)].serial]
        ELSE [code |-> 0, cfg |-> r.devs[idx.val].serial]

\* A mutant of cmd_device that counts positions from 0.
cmd_device_zero_based(args, found, listing, relisting, saved) ==
    LET r == adb_devices(found, listing)
        idx == PyInt(args[1])
    IN  IF r.exit THEN [code |-> 127, cfg |-> saved]
        ELSE IF r.devs = << >> THEN [code |-> 1, cfg |-> saved]
        ELSE IF args = << >> THEN [code |-> cmd_list(found, relisting), cfg |-> saved]
        ELSE IF ~idx.ok THEN [code |-> 1, cfg |-> saved]
        ELSE IF idx.val < 0 \/ idx.val >= Len(r.devs) THEN [code |-> 1, cfg |-> saved]
        ELSE [code |-> 0, cfg |-> r.devs[idx.val + 1].serial]

\* cmd_device(args): args is the command line after "device", each argument
\* a text; relisting is what adb_devices() gives the cmd_list() it calls
\* when there is no argument; saved is the persisted selection before.
cmd_device(args, found, listing, relisting, saved) ==
    LET r == adb_devices(found, listing)
        idx == PyInt(args[1])
    IN  IF r.exit THEN [code |-> 127, cfg |-> saved]
        ELSE IF r.devs = << >> THEN [code |-> 1, cfg |-> saved]
        ELSE IF args = << >> THEN [code |-> cmd_list(found, relisting), cfg |-> saved]
        ELSE IF ~idx.ok THEN [code |-> 1, cfg |-> saved]
        ELSE IF idx.val < 1 \/ idx.val > Len(r.devs) THEN [code |-> 1, cfg |-> saved]
        ELSE [code |-> 0, cfg |-> r.devs[idx.val].serial]

\* cmd_reset(): reset_cfg() removes the config file.
cmd_reset(saved) == [code |-> 0, cfg |-> NoSerial]

----------------------------------------------------------------------------
(* Inputs drawn for direct calls. *)

Epochs == 0..MaxEpoch
Thresholds == 1..MaxThreshold

LinuxRoot == [windows |-> FALSE, privileged |-> TRUE, pkexec |-> FALSE, sudo |-> FALSE]
LinuxUsers == {[windows |-> FALSE, privileged |-> FALSE, pkexec |-> k, sudo |-> s] :
                  k \in BOOLEAN, s \in BOOLEAN}
WindowsAdmin == [windows |-> TRUE, privileged |-> TRUE, pkexec |-> FALSE, sudo |-> FALSE]
WindowsUser == [windows |-> TRUE, privileged |-> FALSE, pkexec |-> FALSE, sudo |-> FALSE]

\* How the host's commands behave; the fields a platform does not use are fixed.
HostEnv(tdc, tz_ok, zonefile, link, date_ok, ps_tz_ok, ps_date_ok) ==
    [tdc |-> tdc, id_ok |-> tz_ok, etc_ok |-> tz_ok, zonefile |-> zonefile,
     link |-> link, date_ok |-> date_ok, ps_tz_ok |-> ps_tz_ok,
     ps_date_ok |-> ps_date_ok]
LinuxEnvs == {HostEnv(t, z, f, l, d, FALSE, FALSE) :
                 t \in BOOLEAN, z \in BOOLEAN, f \in BOOLEAN,
                 l \in {"ok", "write_raised"}, d \in BOOLEAN}
WindowsEnvs == {HostEnv(FALSE, FALSE, FALSE, "ok", FALSE, z, d) :
                   z \in BOOLEAN, d \in BOOLEAN}
IdleEnv == HostEnv(FALSE, FALSE, FALSE, "ok", FALSE, FALSE, FALSE)

Plus0900 == <<"+", "0", "9", "0", "0">>
ZoneIds == {NoZone, "Asia/Tokyo"}
Offsets == {NoText, Plus0900}

HostSettings ==
    {[host |-> LinuxRoot, tz_id |-> z, off |-> o, e |-> e] :
        z \in ZoneIds, o \in Offsets, e \in LinuxEnvs}
    \cup {[host |-> WindowsAdmin, tz_id |-> z, off |-> o, e |-> e] :
        z \in ZoneIds, o \in Offsets, e \in WindowsEnvs}
    \cup {[host |-> h, tz_id |-> NoZone, off |-> NoText, e |-> IdleEnv] :
        h \in LinuxUsers \cup {WindowsUser}}

SyncProbes ==
    {<<"ok", "ok", "ok", "ok">>, <<"rc", "nondigit", "rc", "ok">>,
     <<"nondigit", "ok", "rc", "rc">>, <<"rc", "rc", "rc", "rc">>,
     <<"nondigit", "rc", "nondigit", "nondigit">>}

SyncInput(pr, ph, h, t, hs) ==
    [probes |-> pr, phone |-> ph, host_ts |-> h, thr |-> t, host |-> hs.host,
     tz_id |-> hs.tz_id, off |-> hs.off, e |-> hs.e]

PickInputs ==
    [preferred : {NoSerial} \cup Serials, saved : {NoSerial} \cup Serials,
     found : BOOLEAN, listing : Listings(MaxDevices)]

OffsetChars == {"+", "-", "0", "3", "8", " ", "x"}

\* Arguments given to "device": the positions up to one past the longest
\* listing, and texts that are no position.
ArgTexts ==
    {Decimal(n) : n \in 0..(MaxDevices + 1)}
    \cup {<<"-", "1">>, <<"+", "1">>, <<"x">>}

\* A selection followed by a resolution: "device arg" run on listing, then
\* pick_serial(None) run when the bridge lists later.
SelectInputs ==
    [arg : ArgTexts, listing : Listings(MaxDevices), later : Listings(MaxDevices)]

Plus0530 == <<"+", "0", "5", "3", "0">>
LinkOutcomes == {"ok", "ln_failed", "ln_raised", "write_raised"}

\* set_timezone_linux with every behaviour of the host's commands.
ZoneInputs ==
    [tz_id : ZoneIds, off : {NoText, Plus0900, Plus0530}, tdc : BOOLEAN,
     id_ok : BOOLEAN, etc_ok : BOOLEAN, zonefile : BOOLEAN, link : LinkOutcomes]

\* The epoch appliers; pause_ok and resume_ok are the exit statuses of the
\* commands that pause and resume the time service.
LinuxEpochInputs ==
    [epoch : Epochs, tdc : BOOLEAN, date_ok : BOOLEAN, pause_ok : BOOLEAN,
     resume_ok : BOOLEAN]
WindowsEpochInputs ==
    [epoch : Epochs, ps_date_ok : BOOLEAN, pause_ok : BOOLEAN, resume_ok : BOOLEAN]

\* What the probe of phone_offset_hhmm can print.
OutputChars == {"+", "-", "0", " ", "\r"}

Pending(fn, i) == [fn |-> fn, in |-> i, done |-> FALSE, res |-> "pending"]

NoCall == [fn |-> "none", in |-> "none", done |-> TRUE, res |-> "none"]

----------------------------------------------------------------------------
(* The process. *)

Idle ==
    /\ pc = "idle"
    /\ env = "none"
    /\ cfg = NoSerial
    /\ now = 0
    /\ start_time = 0
    /\ had_success = FALSE
    /\ devices = << >>
    /\ serial = NoSerial
    /\ last = "none"
    /\ quiet = 0
    /\ exit_code = 0
    /\ exit_reason = "none"

process_vars == <<pc, env, cfg, now, start_time, had_success, devices, serial,
                  last, quiet, exit_code, exit_reason>>

\* STARTUP_WINDOW, DISCOVERY_INTERVAL, REFRESH_INTERVAL (seconds) and
\* DRIFT_THRESHOLD as the environment sets them.
Settings ==
    {[startup_window |-> 10, discovery_interval |-> 5, refresh_interval |-> 3,
      drift_threshold |-> 1],
     [startup_window |-> 3, discovery_interval |-> 2, refresh_interval |-> 1,
      drift_threshold |-> 2]}

Hosts == {LinuxRoot, WindowsAdmin, WindowsUser} \cup LinuxUsers

\* time.sleep and the intervals count seconds; the model counts ticks.
Ticks(seconds) == 2 * seconds
After(t, d) == Min(t + d, MaxTime)

\* dict(adb_devices()).get(serial, ""): the state of the last entry listed
\* with that serial.
RECURSIVE state_of(_, _)
state_of(devs, s) ==
    IF devs = << >> THEN ""
    ELSE IF devs[Len(devs)].serial = s THEN devs[Len(devs)].state
    ELSE state_of(SubSeq(devs, 1, Len(devs) - 1), s)

\* What a step did: which step, the sleep it ended with, whether it read the
\* startup-window deadline, and what sync_once returned in it.  odd tells
\* apart successive rounds of a wait once the clock has stopped advancing.
\* seen and probe are what a round of the gate got: the state listed for
\* the serial and the outcome of the echo probe, if it was run.
Ran(step, sleep, checked, result) ==
    [step |-> step, sleep |-> sleep, checked |-> checked, result |-> result,
     odd |-> FALSE, seen |-> "none", probe |-> "none"]
Again(step, sleep) ==
    [step |-> step, sleep |-> sleep, checked |-> FALSE, result |-> "none",
     odd |-> IF last.step = step THEN ~last.odd ELSE FALSE,
     seen |-> "none", probe |-> "none"]
Round(ran, devs, s, probe) ==
    [ran EXCEPT !.seen = state_of(devs, s),
                !.probe = IF state_of(devs, s) = "device" THEN probe ELSE "none"]

Init ==
    /\ pc = "start"
    /\ env \in [mode : {"run", "oneshot"}, set : Settings, host : Hosts]
    /\ cfg \in {NoSerial, "A"}
    /\ now = 0
    /\ start_time = 0
    /\ had_success = FALSE
    /\ devices = << >>
    /\ serial = NoSerial
    /\ last = Ran("none", "none", FALSE, "none")
    /\ quiet = [on |-> TRUE, sleeps |-> 0]
    /\ exit_code = 0
    /\ exit_reason = "none"
    /\ call = NoCall

Window == Ticks(env.set.startup_window)
Discovery == Ticks(env.set.discovery_interval)
Refresh == Ticks(env.set.refresh_interval)
SleepTicks(kind) ==
    CASE kind = "discovery" -> Discovery
      [] kind = "refresh" -> Refresh
      [] kind = "gate" -> 1
      [] OTHER -> 0

\* A mutant of after_empty_poll that keeps the refresh schedule after a
\* success.
after_empty_poll_refresh(hs, elapsed, window) ==
    IF ~hs /\ elapsed >= window
    THEN [exit |-> TRUE, sleep |-> "none", checked |-> TRUE]
    ELSE [exit |-> FALSE, sleep |-> IF hs THEN "refresh" ELSE "discovery",
          checked |-> ~hs]

\* A mutant of after_empty_poll with an exclusive deadline.
after_empty_poll_late(hs, elapsed, window) ==
    IF ~hs /\ elapsed > window
    THEN [exit |-> TRUE, sleep |-> "none", checked |-> TRUE]
    ELSE [exit |-> FALSE, sleep |-> "discovery", checked |-> ~hs]

\* run_boot_cycle, no devices listed: give up when no sync has succeeded and
\* the window has elapsed (the elapsed time is read only when had_success is
\* false), else sleep discovery_interval.
after_empty_poll(hs, elapsed, window) ==
    IF ~hs /\ elapsed >= window
    THEN [exit |-> TRUE, sleep |-> "none", checked |-> TRUE]
    ELSE [exit |-> FALSE, sleep |-> "discovery", checked |-> ~hs]

\* A mutant of after_attempt that gives up at half the window.
after_attempt_early(hs, elapsed, window) ==
    IF hs THEN [exit |-> FALSE, sleep |-> "refresh", checked |-> FALSE]
    ELSE IF 2 * elapsed >= window
         THEN [exit |-> TRUE, sleep |-> "none", checked |-> TRUE]
    ELSE [exit |-> FALSE, sleep |-> "discovery", checked |-> TRUE]

\* A mutant of after_attempt that keeps the discovery schedule after a success.
after_attempt_discovering(hs, elapsed, window) ==
    IF elapsed >= window
    THEN [exit |-> TRUE, sleep |-> "none", checked |-> TRUE]
    ELSE [exit |-> FALSE, sleep |-> "discovery", checked |-> TRUE]

\* run_boot_cycle, after sync_once returned: sleep refresh_interval once a
\* sync has succeeded; else give up when the window has elapsed, else sleep
\* discovery_interval.
after_attempt(hs, elapsed, window) ==
    IF hs THEN [exit |-> FALSE, sleep |-> "refresh", checked |-> FALSE]
    ELSE IF elapsed >= window
         THEN [exit |-> TRUE, sleep |-> "none", checked |-> TRUE]
    ELSE [exit |-> FALSE, sleep |-> "discovery", checked |-> TRUE]

\* A mutant of after_error that never reads the deadline.
after_error_unbounded(hs, elapsed, window) ==
    IF hs THEN [exit |-> FALSE, sleep |-> "refresh", checked |-> FALSE]
    ELSE [exit |-> FALSE, sleep |-> "discovery", checked |-> FALSE]

\* A mutant of after_error that ends the process on any error before a success.
after_error_fatal(hs, elapsed, window) ==
    IF hs THEN [exit |-> FALSE, sleep |-> "refresh", checked |-> FALSE]
    ELSE [exit |-> TRUE, sleep |-> "none", checked |-> TRUE]

\* run_boot_cycle, the except clause: the same schedule after a raised error.
after_error(hs, elapsed, window) ==
    IF hs THEN [exit |-> FALSE, sleep |-> "refresh", checked |-> FALSE]
    ELSE IF elapsed >= window
         THEN [exit |-> TRUE, sleep |-> "none", checked |-> TRUE]
    ELSE [exit |-> FALSE, sleep |-> "discovery", checked |-> TRUE]

\* The process ends with status code at time t.
Ends(code, reason, t, ran) ==
    /\ pc' = "exited"
    /\ exit_code' = code
    /\ exit_reason' = reason
    /\ now' = t
    /\ last' = ran

\* The loop sleeps as d says, or gives up, at time t after a step.
Schedules(d, t, step, result) ==
    IF d.exit
    THEN Ends(0, "deadline", t, Ran(step, "none", d.checked, result))
    ELSE /\ pc' = "poll"
         /\ now' = After(t, SleepTicks(d.sleep))
         /\ last' = Ran(step, d.sleep, d.checked, result)
         /\ UNCHANGED <<exit_code, exit_reason>>

\* run_boot_cycle up to the loop: have("adb"), adb start-server, start_time.
Start ==
    /\ pc = "start"
    /\ \E found \in BOOLEAN :
          IF ~found
          THEN /\ Ends(127, "adb_missing", now, Ran("start", "none", FALSE, "none"))
               /\ UNCHANGED start_time
          ELSE /\ pc' = "poll"
               /\ start_time' = now
               /\ last' = Ran("start", "none", FALSE, "none")
               /\ UNCHANGED <<now, exit_code, exit_reason>>
    /\ had_success' = FALSE
    /\ UNCHANGED <<env, cfg, devices, serial, quiet, call>>

\* What the bridge lists when it is asked again within the same pass: the
\* same devices, or the first one gone.
Relisted(listing) == {listing, Tail(listing)}

\* One pass of the loop from its top to the call of wait_for_authorized:
\* adb connect, adb_devices(), the no-devices branch, load_cfg() and
\* pick_serial(prefer).  listing2 is what adb_devices() gives pick_serial,
\* which lists again only when it is given no preference.
Poll ==
    /\ pc = "poll"
    /\ \E busy \in 0..MaxBusy :
          LET t == After(now, busy)
              d == after_empty_poll(had_success, t - start_time, Window)
              stillQuiet == quiet.on /\ busy = 0
          IN  \/ /\ adb_devices(FALSE, << >>).exit
                 /\ Ends(127, "adb_missing", t, Ran("poll", "none", FALSE, "none"))
                 /\ quiet' = [on |-> FALSE, sleeps |-> 0]
                 /\ UNCHANGED <<devices, serial>>
              \/ /\ adb_devices(TRUE, << >>).devs = << >>
                 /\ IF env.mode = "oneshot"
                    THEN Ends(0, "oneshot", t, Ran("poll_empty", "none", FALSE, "none"))
                    ELSE Schedules(d, t, "poll_empty", "none")
                 /\ quiet' = IF stillQuiet
                             THEN [on |-> TRUE,
                                   sleeps |-> IF env.mode = "run" /\ ~d.exit
                                              THEN quiet.sleeps + 1
                                              ELSE quiet.sleeps]
                             ELSE [on |-> FALSE, sleeps |-> 0]
                 /\ UNCHANGED <<devices, serial>>
              \/ \E listing \in Listings(MaxPollDevices) \ {<< >>} :
                 \E listing2 \in IF cfg = NoSerial THEN Relisted(listing)
                                 ELSE {listing} :
                    LET prefer == cfg
                        ps == pick_serial(prefer, cfg, TRUE, listing2)
                    IN  /\ pc' = "wait_device"
                        /\ devices' = adb_devices(TRUE, listing).devs
                        /\ serial' = ps.val
                        /\ now' = t
                        /\ last' = Ran("poll", "none", FALSE, "none")
                        /\ quiet' = [on |-> FALSE, sleeps |-> 0]
                        /\ UNCHANGED <<exit_code, exit_reason>>
    /\ UNCHANGED <<env, cfg, start_time, had_success, call>>

\* A mutant of Except without the oneshot return.
Except_keeps_looping ==
    /\ LET d == after_error(had_success, now - start_time, Window) IN
          Schedules(d, now, "error", "none")
    /\ devices' = << >>
    /\ serial' = NoSerial
    /\ quiet' = [on |-> FALSE, sleeps |-> 0]
    /\ UNCHANGED <<env, cfg, start_time, had_success, call>>

\* The except clause of the loop, entered at time now.
Except ==
    /\ LET d == after_error(had_success, now - start_time, Window) IN
          IF env.mode = "oneshot"
          THEN Ends(0, "oneshot", now, Ran("error", "none", FALSE, "none"))
          ELSE Schedules(d, now, "error", "none")
    /\ devices' = << >>
    /\ serial' = NoSerial
    /\ quiet' = [on |-> FALSE, sleeps |-> 0]
    /\ UNCHANGED <<env, cfg, start_time, had_success, call>>

\* wait_for_authorized(serial) before its loop: adb start-server, then adb -s
\* serial wait-for-device, which returns when the bridge says so; until then
\* the process stays in that call.  With no serial (pick_serial returned
\* None) subprocess.run raises and the except clause runs.  devices is not
\* read again in this pass and is dropped.
WaitForDevice ==
    /\ pc = "wait_device"
    /\ IF serial = NoSerial
       THEN Except
       ELSE /\ \E returned \in BOOLEAN :
                  /\ pc' = IF returned THEN "gate" ELSE "wait_device"
                  /\ now' = IF returned THEN now ELSE After(now, 1)
                  /\ last' = IF returned
                             THEN Ran("wait_device", "none", FALSE, "none")
                             ELSE Again("waiting", "none")
            /\ devices' = << >>
            /\ UNCHANGED <<env, cfg, start_time, had_success, serial, quiet,
                           exit_code, exit_reason, call>>

\* A mutant of gate_open that trusts the listing without the echo probe.
gate_open_unprobed(devs, s, probe) == state_of(devs, s) = "device"

\* wait_for_authorized: the round returns when the listing gives serial the
\* state "device" and the echo probe exits 0 printing ok.
gate_open(devs, s, probe) == state_of(devs, s) = "device" /\ probe = "ok"

\* One round of the loop of wait_for_authorized: adb_devices(), the state of
\* serial, the echo probe ("ok"; "rc": it exits nonzero; "silent": it exits 0
\* without printing ok), and either the return or time.sleep(0.5).
GateRound ==
    /\ pc = "gate"
    /\ \/ /\ adb_devices(FALSE, << >>).exit
          /\ Ends(127, "adb_missing", now, Ran("gate", "none", FALSE, "none"))
       \/ \E listing \in Listings(MaxPollDevices), probe \in {"ok", "rc", "silent"} :
             IF gate_open(adb_devices(TRUE, listing).devs, serial, probe)
             THEN /\ pc' = "sync"
                  /\ last' = Round(Ran("gate", "none", FALSE, "none"),
                                   adb_devices(TRUE, listing).devs, serial, probe)
                  /\ UNCHANGED <<now, exit_code, exit_reason>>
             ELSE /\ pc' = "gate"
                  /\ now' = After(now, SleepTicks("gate"))
                  /\ last' = Round(Again("gate", "gate"),
                                   adb_devices(TRUE, listing).devs, serial, probe)
                  /\ UNCHANGED <<exit_code, exit_reason>>
    /\ UNCHANGED <<env, cfg, start_time, had_success, devices, serial, quiet, call>>

AllOk == <<"ok", "ok", "ok", "ok">>
AllRc == <<"rc", "rc", "rc", "rc">>
WorkingEnv == HostEnv(TRUE, TRUE, TRUE, "ok", TRUE, TRUE, TRUE)

\* What a sync attempt of the daemon can meet.
DaemonSyncInputs ==
    {[probes |-> pr, phone |-> ph, host_ts |-> 0, thr |-> env.set.drift_threshold,
      host |-> env.host, tz_id |-> "Asia/Tokyo", off |-> NoText, e |-> e] :
        pr \in {AllOk, AllRc}, ph \in {0, MaxEpoch}, e \in {WorkingEnv, IdleEnv}}

\* The rest of the pass: sync_once(serial, drift_threshold), had_success, the
\* oneshot return, and the sleep or the give-up.
Sync ==
    /\ pc = "sync"
    /\ \E i \in DaemonSyncInputs, busy \in 0..MaxBusy :
          LET t == After(now, busy)
              r == sync_once(i)
              hs == had_success \/ r.ret
              res == IF r.ret THEN "true" ELSE "false"
              d == after_attempt(hs, t - start_time, Window)
          IN  IF r.outcome = "exit1"
              THEN /\ Ends(1, "elevate", t, Ran("sync", "none", FALSE, "none"))
                   /\ UNCHANGED had_success
              ELSE IF r.outcome = "exit0"
              THEN /\ Ends(0, "elevate", t, Ran("sync", "none", FALSE, "none"))
                   /\ UNCHANGED had_success
              ELSE IF r.outcome = "exec"
              THEN /\ Ends(0, "exec", t, Ran("sync", "none", FALSE, "none"))
                   /\ UNCHANGED had_success
              ELSE /\ had_success' = hs
                   /\ IF env.mode = "oneshot"
                      THEN Ends(0, "oneshot", t, Ran("sync", "none", FALSE, res))
                      ELSE Schedules(d, t, "sync", res)
    /\ devices' = << >>
    /\ serial' = NoSerial
    /\ UNCHANGED <<env, cfg, start_time, quiet, call>>

\* An Exception raised by a call inside the try block (a subprocess that
\* cannot be started, config_path() failing), and the except clause.
RaiseError ==
    /\ pc \in {"poll", "wait_device", "gate", "sync"}
    /\ Except

\* SIGTERM or SIGINT: _handle_signal closes the log and sys.exit(0).
Signal ==
    /\ pc \in {"start", "poll", "wait_device", "gate", "sync"}
    /\ Ends(0, "signal", now, Ran("signal", "none", FALSE, "none"))
    /\ UNCHANGED <<env, cfg, start_time, had_success, devices, serial, quiet, call>>

Step == Start \/ Poll \/ WaitForDevice \/ GateRound \/ Sync

Next == Step \/ RaiseError \/ Signal

Spec == Init /\ [][Next]_vars

\* The process takes its next step whenever it has one.
FairSpec == Spec /\ WF_vars(Step)

----------------------------------------------------------------------------
(* The command line: main run again and again on one persisted selection.  *)
(* pc is "shell" while no process runs; env is what the process was        *)
(* started with, devices the listing it got.                                *)

NoProcess == pc = "shell"

InitCmd ==
    /\ pc = "shell"
    /\ env = [mode |-> "none", args |-> << >>, adb |-> TRUE, host |-> LinuxRoot]
    /\ cfg \in {NoSerial} \cup Serials
    /\ now = 0
    /\ start_time = 0
    /\ had_success = FALSE
    /\ devices = << >>
    /\ serial = NoSerial
    /\ last = Ran("none", "none", FALSE, "none")
    /\ quiet = [on |-> FALSE, sleeps |-> 0]
    /\ exit_code = 0
    /\ exit_reason = "none"
    /\ call = NoCall

Command(mode, args, adb, host) ==
    [mode |-> mode, args |-> args, adb |-> adb, host |-> host]

\* main: sys.exit(code) after a command that ran as cmd, saw listing and
\* left the selection newcfg.
Finished(cmd, code, reason, listing, newcfg) ==
    /\ pc' = "exited"
    /\ env' = cmd
    /\ exit_code' = code
    /\ exit_reason' = reason
    /\ devices' = listing
    /\ cfg' = newcfg
    /\ last' = Ran(cmd.mode, "none", FALSE, "none")
    /\ serial' = NoSerial
    /\ now' = 0
    /\ start_time' = 0
    /\ had_success' = FALSE
    /\ quiet' = [on |-> FALSE, sleeps |-> 0]
    /\ UNCHANGED call

\* toadb list
RunList ==
    /\ NoProcess
    /\ \E adb \in BOOLEAN, listing \in Listings(MaxDevices) :
          Finished(Command("list", << >>, adb, LinuxRoot), cmd_list(adb, listing),
                   "return", adb_devices(adb, listing).devs, cfg)

\* toadb device [N]
RunDevice ==
    /\ NoProcess
    /\ \E adb \in BOOLEAN, listing \in Listings(MaxDevices),
          args \in {<< >>} \cup {<<a>> : a \in ArgTexts} :
       \E relisting \in IF listing = << >> THEN {listing} ELSE Relisted(listing) :
          LET d == cmd_device(args, adb, listing, relisting, cfg)
          IN  Finished(Command("device", args, adb, LinuxRoot), d.code, "return",
                       adb_devices(adb, listing).devs, d.cfg)

\* toadb reset
RunReset ==
    /\ NoProcess
    /\ LET d == cmd_reset(cfg)
       IN  Finished(Command("reset", << >>, TRUE, LinuxRoot), d.code, "return",
                    << >>, d.cfg)

ResyncHosts ==
    {LinuxRoot, WindowsAdmin,
     [windows |-> FALSE, privileged |-> FALSE, pkexec |-> FALSE, sudo |-> FALSE]}

\* cmd_resync up to the loop of wait_for_authorized: pick_serial on the
\* persisted selection; with no serial, adb wait-for-device and pick_serial
\* (None) on what is listed then; device_model, which swallows its errors;
\* and adb start-server, which raises FileNotFoundError without adb: nothing
\* catches it and the interpreter exits with status 1.
RunResync ==
    /\ NoProcess
    /\ \E adb \in BOOLEAN, host \in ResyncHosts,
          listing \in Listings(MaxPollDevices), listing2 \in Listings(MaxPollDevices) :
          LET cmd == Command("resync", << >>, adb, host)
              p1 == pick_serial(cfg, cfg, adb, listing)
              p2 == pick_serial(NoSerial, cfg, adb, listing2)
              p == IF p1.exit \/ p1.val # NoSerial THEN p1 ELSE p2
              seen == IF p1.exit \/ p1.val # NoSerial
                      THEN adb_devices(adb, listing).devs
                      ELSE adb_devices(adb, listing2).devs
          IN  IF p.exit THEN Finished(cmd, 127, "adb_missing", seen, cfg)
              ELSE IF p.val = NoSerial THEN Finished(cmd, 1, "return", seen, cfg)
              ELSE IF ~adb THEN Finished(cmd, 1, "uncaught", << >>, cfg)
              ELSE /\ pc' = "resync_gate"
                   /\ env' = cmd
                   /\ serial' = p.val
                   /\ devices' = << >>
                   /\ last' = Ran("resync", "none", FALSE, "none")
                   /\ exit_code' = 0
                   /\ exit_reason' = "none"
                   /\ now' = 0
                   /\ start_time' = 0
                   /\ had_success' = FALSE
                   /\ quiet' = [on |-> FALSE, sleeps |-> 0]
                   /\ UNCHANGED <<cfg, call>>

\* One round of wait_for_authorized in cmd_resync.
ResyncGate ==
    /\ pc = "resync_gate"
    /\ \E listing \in Listings(MaxPollDevices), probe \in {"ok", "rc", "silent"} :
          /\ pc' = IF gate_open(adb_devices(TRUE, listing).devs, serial, probe)
                   THEN "resync_sync" ELSE "resync_gate"
          /\ last' = Again("resync_gate", "gate")
    /\ UNCHANGED <<env, cfg, now, start_time, had_success, devices, serial, quiet,
                   exit_code, exit_reason, call>>

\* What the sync attempt of cmd_resync can meet; the threshold is the
\* default of sync_once.
ResyncSyncInputs ==
    {[probes |-> pr, phone |-> ph, host_ts |-> 0, thr |-> 1,
      host |-> env.host, tz_id |-> "Asia/Tokyo", off |-> NoText, e |-> e] :
        pr \in {AllOk, AllRc}, ph \in {0, MaxEpoch}, e \in {WorkingEnv, IdleEnv}}

\* How the process of cmd_resync ends on what sync_once did: return 0 if
\* sync_once(serial) else 1, unless the elevation call ended it before.
resync_end(r) ==
    CASE r.outcome = "exit1" -> [code |-> 1, reason |-> "elevate"]
      [] r.outcome = "exit0" -> [code |-> 0, reason |-> "elevate"]
      [] r.outcome = "exec" -> [code |-> 0, reason |-> "exec"]
      [] OTHER -> [code |-> IF r.ret THEN 0 ELSE 1, reason |-> "return"]

FinishedAs(cmd, end, listing, newcfg) ==
    Finished(cmd, end.code, end.reason, listing, newcfg)

\* cmd_resync after wait_for_authorized returned: sync_once(serial).
ResyncSync ==
    /\ pc = "resync_sync"
    /\ \E i \in ResyncSyncInputs :
          FinishedAs(env, resync_end(sync_once(i)), << >>, cfg)

\* What the daemon and oneshot are started with from the command line.
Launches ==
    [mode : {"run", "oneshot"},
     set : {[startup_window |-> 3, discovery_interval |-> 2, refresh_interval |-> 1,
             drift_threshold |-> 2]},
     host : {LinuxRoot}]

\* toadb, toadb oneshot: main calls run_boot_cycle.
RunDaemon ==
    /\ NoProcess
    /\ pc' = "start"
    /\ env' \in Launches
    /\ now' = 0
    /\ start_time' = 0
    /\ had_success' = FALSE
    /\ devices' = << >>
    /\ serial' = NoSerial
    /\ last' = Ran("none", "none", FALSE, "none")
    /\ quiet' = [on |-> TRUE, sleeps |-> 0]
    /\ exit_code' = 0
    /\ exit_reason' = "none"
    /\ UNCHANGED <<cfg, call>>

\* The process is gone; only the config file is left of it.
Prompt ==
    /\ pc = "exited"
    /\ pc' = "shell"
    /\ env' = Command("none", << >>, TRUE, LinuxRoot)
    /\ now' = 0
    /\ start_time' = 0
    /\ had_success' = FALSE
    /\ devices' = << >>
    /\ serial' = NoSerial
    /\ last' = Ran("none", "none", FALSE, "none")
    /\ quiet' = [on |-> FALSE, sleeps |-> 0]
    /\ exit_code' = 0
    /\ exit_reason' = "none"
    /\ UNCHANGED <<cfg, call>>

Run == RunList \/ RunDevice \/ RunReset \/ RunResync \/ RunDaemon

NextCmd == Run \/ ResyncGate \/ ResyncSync \/ Next \/ Prompt

SpecCmd == InitCmd /\ [][NextCmd]_vars

----------------------------------------------------------------------------
(* Direct calls: one function applied to drawn inputs. *)

InitFn ==
    /\ Idle
    /\ \/ \E i \in PickInputs : call = Pending("pick_serial", i)
       \/ \E i \in SelectInputs : call = Pending("device_then_pick", i)
       \/ \E i \in ZoneInputs : call = Pending("set_timezone_linux", i)
       \/ \E i \in LinuxEpochInputs : call = Pending("set_time_linux_epoch", i)
       \/ \E i \in WindowsEpochInputs : call = Pending("set_time_windows_epoch", i)
       \/ \E rc_ok \in BOOLEAN, k \in 0..MaxOutputLen :
          \E out \in [1..k -> OutputChars] :
             call = Pending("phone_offset_hhmm", [rc_ok |-> rc_ok, stdout |-> out])
       \/ \E k \in 0..MaxOffsetLen : \E h \in [1..k -> OffsetChars] :
             call = Pending("etc_gmt_from_offset", h)
       \/ \E pr \in SyncProbes, ph \in Epochs, h \in Epochs, t \in Thresholds,
             hs \in HostSettings :
             call = Pending("sync_once", SyncInput(pr, ph, h, t, hs))

Returns(fn, res) ==
    /\ call.fn = fn
    /\ ~call.done
    /\ call' = [call EXCEPT !.done = TRUE, !.res = res]
    /\ UNCHANGED process_vars

CallPickSerial ==
    Returns("pick_serial",
            pick_serial(call.in.preferred, call.in.saved, call.in.found,
                        call.in.listing))

CallEtcGmt == Returns("etc_gmt_from_offset", etc_gmt_from_offset(call.in))

CallSyncOnce == Returns("sync_once", sync_once(call.in))

\* main with "device arg" on a host with adb and no selection, and then
\* pick_serial(None) in a later process.
CallDeviceThenPick ==
    LET d == cmd_device(<<call.in.arg>>, TRUE, call.in.listing, call.in.listing,
                        NoSerial)
    IN  Returns("device_then_pick",
                [code |-> d.code, cfg |-> d.cfg,
                 picked |-> pick_serial(NoSerial, d.cfg, TRUE, call.in.later).val])

CallSetTimezoneLinux ==
    Returns("set_timezone_linux",
            set_timezone_linux(call.in.tz_id, call.in.off, call.in))

CallSetTimeLinux ==
    Returns("set_time_linux_epoch", set_time_linux_epoch(call.in.epoch, call.in))

CallSetTimeWindows ==
    Returns("set_time_windows_epoch", set_time_windows_epoch(call.in.epoch, call.in))

CallPhoneOffset ==
    Returns("phone_offset_hhmm",
            phone_offset_hhmm(call.in.rc_ok, call.in.stdout))

NextFn ==
    \/ CallPickSerial
    \/ CallEtcGmt
    \/ CallSyncOnce
    \/ CallDeviceThenPick
    \/ CallSetTimezoneLinux
    \/ CallSetTimeLinux
    \/ CallSetTimeWindows
    \/ CallPhoneOffset

SpecFn == InitFn /\ [][NextFn]_vars

Returned(fn) == call.fn = fn /\ call.done

----------------------------------------------------------------------------
(* Properties of the direct calls (SpecFn). *)

InSeq(x, s) == \E k \in 1..Len(s) : s[k] = x

ListedAt(l, k) == k \in 1..Len(l)
OnlineAt(l, k) == ListedAt(l, k) /\ l[k].state = "device"

\* C1: pick_serial on an installed adb returns the explicit preference
\* unchecked; else the saved selection when it is listed; else the first
\* listed device whose state is "device"; else the first listed serial; else
\* none.
C1_PickPriority ==
    (Returned("pick_serial") /\ call.in.found) =>
        LET p == call.in.preferred
            sv == call.in.saved
            l == call.in.listing
            savedListed == sv # NoSerial /\ \E k \in 1..Len(l) : l[k].serial = sv
            anyOnline == \E k \in 1..Len(l) : OnlineAt(l, k)
        IN  /\ ~call.res.exit
            /\ p # NoSerial => call.res.val = p
            /\ (p = NoSerial /\ savedListed) => call.res.val = sv
            /\ (p = NoSerial /\ ~savedListed /\ anyOnline) =>
                  \E k \in 1..Len(l) :
                      /\ OnlineAt(l, k)
                      /\ \A j \in 1..(k - 1) : ~OnlineAt(l, j)
                      /\ call.res.val = l[k].serial
            /\ (p = NoSerial /\ ~savedListed /\ ~anyOnline /\ l # << >>) =>
                  call.res.val = l[1].serial
            /\ (p = NoSerial /\ ~savedListed /\ l = << >>) =>
                  call.res.val = NoSerial

\* C1 witness: no preference, a saved selection that is not listed, and the
\* only online device listed second: the second serial is returned.
C1_Witness ==
    /\ Returned("pick_serial")
    /\ call.in.found
    /\ call.in.preferred = NoSerial
    /\ call.in.saved = "A"
    /\ Len(call.in.listing) = 2
    /\ call.in.listing[1] = [serial |-> "B", state |-> "unauthorized"]
    /\ call.in.listing[2] = [serial |-> "B", state |-> "device"]
    /\ call.res.val = "B"

SyncDone == Returned("sync_once")
EpochRead == \E k \in 1..Len(call.in.probes) : call.in.probes[k] = "ok"
DriftReached ==
    \/ call.in.phone - call.in.host_ts >= call.in.thr
    \/ call.in.host_ts - call.in.phone >= call.in.thr

\* C3: when sync_once has read the epoch and returns, it called the epoch
\* applier exactly when abs(phone - host) >= threshold (boundary included);
\* a skipped time step counts as successful and leaves the clock alone; the
\* timezone applier was called in both cases.
C3_ThresholdGate ==
    (SyncDone /\ EpochRead /\ call.res.outcome = "return") =>
        /\ InSeq("set_time", call.res.calls) <=> DriftReached
        /\ ~DriftReached => (call.res.ok_time /\ call.res.clock = call.in.host_ts)
        /\ InSeq("set_timezone", call.res.calls)

\* C3 witness: the drift equals a threshold of 2 and the clock was set.
C3_Witness ==
    /\ SyncDone
    /\ call.res.outcome = "return"
    /\ call.in.thr = 2
    /\ call.in.host_ts - call.in.phone = 2
    /\ InSeq("set_time", call.res.calls)
    /\ call.res.clock = call.in.phone

TimeStepOk ==
    IF call.in.host.windows THEN call.in.e.ps_date_ok ELSE call.in.e.date_ok

\* C4: when sync_once has read the epoch and returns, the time step was
\* attempted exactly when the drift requires it and the timezone step always,
\* whatever the other step's outcome; the result is the AND of the two
\* outcomes (a skipped time step being true), and the logged classification
\* is the one of that pair.
C4_Independent ==
    (SyncDone /\ EpochRead /\ call.res.outcome = "return") =>
        /\ InSeq("set_time", call.res.calls) <=> DriftReached
        /\ InSeq("set_timezone", call.res.calls)
        /\ call.res.ok_time <=> (~DriftReached \/ TimeStepOk)
        /\ call.res.ret <=> (call.res.ok_tz /\ call.res.ok_time)
        /\ call.res.log = "both" <=> (call.res.ok_tz /\ call.res.ok_time)
        /\ call.res.log = "tz_only" <=> (call.res.ok_tz /\ ~call.res.ok_time)
        /\ call.res.log = "time_only" <=> (~call.res.ok_tz /\ call.res.ok_time)
        /\ call.res.log = "neither" <=> (~call.res.ok_tz /\ ~call.res.ok_time)

\* C4 witness: the timezone step failed, the time step was attempted and
\* succeeded, "time only" was logged and sync_once returned false.
C4_Witness ==
    /\ SyncDone
    /\ call.res.outcome = "return"
    /\ ~call.res.ok_tz
    /\ InSeq("set_time", call.res.calls)
    /\ InSeq("date_set", call.res.cmds)
    /\ call.res.ok_time
    /\ call.res.log = "time_only"
    /\ ~call.res.ret

\* C5: when no epoch probe yields a value, sync_once returns false having
\* made no elevation call, no applier call and no host command, the host
\* clock being what it was.
C5_NoEpochNoEffect ==
    (SyncDone /\ ~EpochRead) =>
        /\ call.res.outcome = "return"
        /\ ~call.res.ret
        /\ call.res.calls = << >>
        /\ call.res.cmds = << >>
        /\ call.res.clock = call.in.host_ts

\* C5 witness: no probe answered on a host where the elevation call would have
\* ended the process; sync_once returned false without calling it.
C5_Witness ==
    /\ SyncDone
    /\ ~EpochRead
    /\ ~call.in.host.windows
    /\ ~call.in.host.privileged
    /\ ~call.in.host.pkexec
    /\ ~call.in.host.sudo
    /\ call.res.outcome = "return"
    /\ ~call.res.ret
    /\ call.res.calls = << >>

WellFormedOffset(h) ==
    /\ Len(h) = 5
    /\ h[1] \in {"+", "-"}
    /\ \A k \in 2..5 : IsDigit(h[k])
HourCount(h) == 10 * DigitVal(h[2]) + DigitVal(h[3])
WholeHours(h) == h[4] = "0" /\ h[5] = "0"
Opposite(c) == IF c = "+" THEN "-" ELSE "+"

\* The texts int() accepts among those of one or two characters.
IntField(f) ==
    \/ Len(f) = 1 /\ IsDigit(f[1])
    \/ Len(f) = 2 /\ IsDigit(f[1]) /\ IsDigit(f[2])
    \/ Len(f) = 2 /\ f[1] \in {" ", "+", "-"} /\ IsDigit(f[2])
    \/ Len(f) = 2 /\ IsDigit(f[1]) /\ f[2] = " "
ZeroField(f) == IntField(f) /\ \A k \in 1..Len(f) : IsDigit(f[k]) => f[k] = "0"

\* The texts etc_gmt_from_offset maps to a zone: characters 2-3 and the
\* characters from the 4th to the 5th are integers, the second being zero.
Accepted(h) ==
    /\ Len(h) >= 4
    /\ IntField(<<h[2], h[3]>>)
    /\ ZeroField(IF Len(h) = 4 THEN <<h[4]>> ELSE <<h[4], h[5]>>)

\* C10 as stated: a well-formed sHHMM with MM = 00 gives Etc/GMT with the
\* opposite sign and the same hour count (either sign being taken for zero
\* hours), and every other text gives none.
C10_AsStated ==
    Returned("etc_gmt_from_offset") =>
        LET h == call.in IN
        IF WellFormedOffset(h) /\ WholeHours(h)
        THEN \/ call.res = EtcGmt \o <<Opposite(h[1])>> \o Decimal(HourCount(h))
             \/ HourCount(h) = 0 /\ call.res = EtcGmt \o <<"+", "0">>
        ELSE call.res = NoText

\* C10, amended: a well-formed sHHMM with MM = 00 gives Etc/GMT with the
\* opposite sign and the same hour count (Etc/GMT+0 for zero hours), and one
\* with nonzero minutes gives none; any other text gives none exactly when
\* its characters 2-3 or its characters 4-5 are no integer to int() (or are
\* missing) or the second integer is not zero, and is mapped to a zone
\* otherwise.
C10_EtcGmt ==
    Returned("etc_gmt_from_offset") =>
        LET h == call.in IN
        /\ (WellFormedOffset(h) /\ WholeHours(h)) =>
              call.res = EtcGmt \o (IF HourCount(h) = 0 THEN <<"+", "0">>
                                    ELSE <<Opposite(h[1])>> \o Decimal(HourCount(h)))
        /\ (WellFormedOffset(h) /\ ~WholeHours(h)) => call.res = NoText
        /\ call.res # NoText <=> Accepted(h)
        /\ call.res # NoText =>
              /\ Len(call.res) > Len(EtcGmt) + 1
              /\ SubSeq(call.res, 1, Len(EtcGmt)) = EtcGmt
              /\ call.res[Len(EtcGmt) + 1] \in {"+", "-"}

\* C10 witness: +0800 gave Etc/GMT-8.
C10_Witness ==
    /\ Returned("etc_gmt_from_offset")
    /\ call.in = <<"+", "0", "8", "0", "0">>
    /\ call.res = <<"E", "t", "c", "/", "G", "M", "T", "-", "8">>

\* The position a text names: a decimal numeral, nothing else.
Numeral(a) == a # << >> /\ \A k \in 1..Len(a) : IsDigit(a[k])

\* C11: "device N" with N a numeral, 1 <= N <= n, on a listing of n devices
\* ends with status 0 and persists the serial listed at position N; a later
\* pick_serial with no preference returns that serial whenever some entry of
\* the later listing carries it, whatever the states and the order there.
C11_RoundTrip ==
    (Returned("device_then_pick") /\ Numeral(call.in.arg)) =>
        LET n == DigitsValue(call.in.arg)
            l == call.in.listing
        IN  (1 <= n /\ n <= Len(l)) =>
                /\ call.res.code = 0
                /\ call.res.cfg = l[n].serial
                /\ (\E k \in 1..Len(call.in.later) :
                        call.in.later[k].serial = l[n].serial) =>
                      call.res.picked = l[n].serial

\* C11 witness: "device 2" on <<A, B>> persisted B, and later, B being
\* listed last and unauthorized after an online A, B was resolved.
C11_Witness ==
    /\ Returned("device_then_pick")
    /\ call.in.arg = <<"2">>
    /\ Len(call.in.listing) = 2
    /\ call.in.listing[1].serial = "A"
    /\ call.in.listing[2].serial = "B"
    /\ call.in.later = <<[serial |-> "A", state |-> "device"],
                         [serial |-> "B", state |-> "unauthorized"]>>
    /\ call.res.code = 0
    /\ call.res.cfg = "B"
    /\ call.res.picked = "B"

ZoneToolOk == call.in.tz_id # NoZone /\ call.in.tdc /\ call.in.id_ok
LinkOk ==
    /\ call.in.tz_id # NoZone
    /\ ~ZoneToolOk
    /\ call.in.zonefile
    /\ call.in.link = "ok"
FixedZoneOk ==
    /\ ~ZoneToolOk
    /\ ~LinkOk
    /\ call.in.off # NoText
    /\ WellFormedOffset(call.in.off)
    /\ WholeHours(call.in.off)
    /\ call.in.tdc
    /\ call.in.etc_ok

\* C19 as stated: set_timezone_linux returns true exactly when one of its
\* three steps succeeded (the zone tool with the IANA id; else linking the
\* zone file; else the zone tool with the fixed zone of a whole-hour offset),
\* and when it returns false the host timezone is unchanged.
C19_AsStated ==
    Returned("set_timezone_linux") =>
        /\ call.res.ok <=> (ZoneToolOk \/ LinkOk \/ FixedZoneOk)
        /\ ~call.res.ok => ~call.res.changed

Paused(c, k) == c[k] \in {"set_ntp_false", "stop_w32time"}
Resumed(c, k) == c[k] \in {"set_ntp_true", "start_w32time"}
SetClock(c, k) == c[k] \in {"date_set", "set_date"}

\* C20: each epoch applier runs its set command exactly once and returns
\* that command's exit status whatever the pause and resume commands did;
\* the Windows one always stops the service first and starts it last, the
\* Linux one pauses NTP first and resumes it last exactly when timedatectl
\* is present; so a pause is always followed by a resume after the set
\* command, also when the set command failed.
C20_Bracket ==
    (Returned("set_time_linux_epoch") \/ Returned("set_time_windows_epoch")) =>
        LET c == call.res.cmds
            windows == call.fn = "set_time_windows_epoch"
            service == windows \/ call.in.tdc
        IN  /\ call.res.ok <=> (IF windows THEN call.in.ps_date_ok
                                ELSE call.in.date_ok)
            /\ \E k \in 1..Len(c) :
                  /\ SetClock(c, k)
                  /\ \A j \in 1..Len(c) : SetClock(c, j) => j = k
            /\ \A k \in 1..Len(c) :
                  Paused(c, k) =>
                      \E j \in (k + 1)..Len(c), m \in (k + 1)..Len(c) :
                          SetClock(c, j) /\ j < m /\ Resumed(c, m)
            /\ service => (Paused(c, 1) /\ Resumed(c, Len(c)) /\ Len(c) = 3)
            /\ ~service => Len(c) = 1

\* C20 witness: on Linux with timedatectl, the pause failed and date failed:
\* NTP was resumed after date and false was returned.
C20_Witness ==
    /\ Returned("set_time_linux_epoch")
    /\ call.in.tdc
    /\ ~call.in.date_ok
    /\ ~call.in.pause_ok
    /\ call.in.resume_ok
    /\ call.res.cmds = <<"set_ntp_false", "date_set", "set_ntp_true">>
    /\ ~call.res.ok

\* C21 as stated: phone_offset_hhmm returns a value only when the probe
\* exited 0 and its stripped output starts with a sign and has exactly 5
\* characters, the value being the whole stripped output; every other
\* output, longer ones included, gives none.
C21_AsStated ==
    Returned("phone_offset_hhmm") =>
        LET s == DropReturns(StripRight(StripLeft(call.in.stdout)))
        IN  IF call.in.rc_ok /\ Len(s) = 5 /\ s[1] \in {"+", "-"}
            THEN call.res = s
            ELSE call.res = NoText

----------------------------------------------------------------------------
(* Properties of the daemon loop (Spec, FairSpec). *)

Running == env.mode = "run"
Elapsed == now - start_time
GaveUp == pc = "exited" /\ exit_reason = "deadline"

\* C2 as stated: with a persisted selection, the pass that found devices
\* targets the persisted serial only when it is in the listing of that pass,
\* and otherwise the first listed device in state "device" or, failing that,
\* the first listed serial.
C2_AsStated ==
    (pc = "wait_device" /\ last.step = "poll" /\ cfg # NoSerial) =>
        IF \E k \in 1..Len(devices) : devices[k].serial = cfg
        THEN serial = cfg
        ELSE IF \E k \in 1..Len(devices) : OnlineAt(devices, k)
        THEN \E k \in 1..Len(devices) :
                /\ OnlineAt(devices, k)
                /\ \A j \in 1..(k - 1) : ~OnlineAt(devices, j)
                /\ serial = devices[k].serial
        ELSE serial = devices[1].serial

QuietRun == Running /\ quiet.on

\* C6, in every state: while every poll so far found no device and took no
\* time, had_success is false, the polls are discovery_interval apart, none
\* before the current one was at or past the window, and a give-up has
\* status 0 at the first poll at or past the window; with a window of 10 s
\* and an interval of 5 s that is after exactly 2 sleeps, at 10 s.
C6_Quiet ==
    /\ QuietRun => ~had_success
    /\ (QuietRun /\ (pc = "poll" \/ GaveUp)) =>
          /\ Elapsed = quiet.sleeps * Discovery
          /\ quiet.sleeps > 0 => (quiet.sleeps - 1) * Discovery < Window
    /\ (QuietRun /\ GaveUp) =>
          /\ exit_code = 0
          /\ Elapsed >= Window
          /\ (env.set.startup_window = 10 /\ env.set.discovery_interval = 5) =>
                (quiet.sleeps = 2 /\ Elapsed = Ticks(10))

\* C6, in every step: a poll that finds no device before any success either
\* gives up with status 0, the window having elapsed, or sleeps
\* discovery_interval, the window not having elapsed when it was checked.
C6_EmptyPoll ==
    (Running /\ pc = "poll" /\ ~had_success /\ last'.step = "poll_empty") =>
        \/ /\ pc' = "exited"
           /\ exit_reason' = "deadline"
           /\ exit_code' = 0
           /\ now' - start_time >= Window
        \/ /\ pc' = "poll"
           /\ last'.sleep = "discovery"
           /\ now' >= After(now, Discovery)
           /\ now' < MaxTime => (now' - Discovery) - start_time < Window

\* C6: the give-up scenario of the daemon loop.
C6_GiveUp == [](C6_Quiet) /\ [][C6_EmptyPoll]_vars

\* C6 witness: no device ever, window 10 s, interval 5 s: the process gave up
\* with status 0 after 2 sleeps, 20 ticks after its start.
C6_Witness ==
    /\ QuietRun
    /\ GaveUp
    /\ env.set.startup_window = 10
    /\ env.set.discovery_interval = 5
    /\ quiet.sleeps = 2
    /\ Elapsed = 20
    /\ exit_code = 0
    /\ ~had_success

\* C7, in every step of the daemon: a sync_once that returns true sets
\* had_success, nothing else sets it and nothing resets it; once it is set,
\* a pass that completed a sync attempt sleeps refresh_interval and goes on,
\* and no step reads the startup-window deadline.
C7_Step ==
    Running =>
        /\ (pc = "sync" /\ last'.step = "sync" /\ last'.result = "true") => had_success'
        /\ (~had_success /\ had_success') =>
              (pc = "sync" /\ last'.step = "sync" /\ last'.result = "true")
        /\ had_success => had_success'
        /\ (had_success' /\ pc = "sync" /\ last'.step = "sync"
                /\ last'.result # "none") =>
              /\ pc' = "poll"
              /\ last'.sleep = "refresh"
              /\ now' >= After(now, Refresh)
        /\ had_success' => ~last'.checked

\* C7: from Discovering to Refreshing, and Refreshing for good.
C7_Refreshing == [][C7_Step]_vars

\* C7 witness: after a success, a failed sync attempt past the startup window
\* was followed by a refresh sleep, not by a give-up.
C7_Witness ==
    /\ Running
    /\ had_success
    /\ pc = "poll"
    /\ last.step = "sync"
    /\ last.result = "false"
    /\ last.sleep = "refresh"
    /\ ~last.checked
    /\ Elapsed - Refresh >= Window

\* C8 as stated: a daemon in which no sync ever succeeds eventually exits.
C8_AsStated == (pc = "start" /\ Running) ~> (pc = "exited" \/ had_success)

\* C9 as stated: the daemon ends only by the startup-window deadline (status
\* 0), the missing adb (status 127) or a termination signal.
C9_AsStated ==
    (pc = "exited" /\ Running) =>
        \/ exit_reason = "deadline" /\ exit_code = 0
        \/ exit_reason = "adb_missing" /\ exit_code = 127
        \/ exit_reason = "signal"

\* C9, amended: the daemon ends only by the startup-window deadline (status
\* 0, no success so far and the window elapsed), the missing adb (status
\* 127), a termination signal, or the elevation call of a sync attempt on a
\* host without the privilege: elevate_linux replaces the process by pkexec
\* or sudo, or exits with status 1 when there is neither; elevate_windows
\* exits with status 0.
C9_ExitReasons ==
    (pc = "exited" /\ Running) =>
        \/ /\ exit_reason = "deadline"
           /\ exit_code = 0
           /\ ~had_success
           /\ Elapsed >= Window
        \/ exit_reason = "adb_missing" /\ exit_code = 127
        \/ exit_reason = "signal" /\ exit_code = 0
        \/ /\ exit_reason = "exec"
           /\ last.step = "sync"
           /\ ~env.host.windows
           /\ ~env.host.privileged
           /\ env.host.pkexec \/ env.host.sudo
        \/ /\ exit_reason = "elevate"
           /\ last.step = "sync"
           /\ ~env.host.privileged
           /\ env.host.windows => exit_code = 0
           /\ ~env.host.windows =>
                 (exit_code = 1 /\ ~env.host.pkexec /\ ~env.host.sudo)

\* C9 witness: an error was raised in a pass of the daemon and the process
\* ended only at the deadline check of the except clause.
C9_Witness ==
    /\ Running
    /\ GaveUp
    /\ last.step = "error"
    /\ exit_code = 0
    /\ Elapsed >= Window

\* C13, in every step: wait_for_authorized returns only from a round of
\* its loop; a round that got a listing returns exactly when the listing
\* gives the serial the state "device" and the echo probe exited 0 printing
\* ok; every other such round sleeps 500 ms (one tick) and is followed by
\* another round, whatever time has passed since the start.
C13_Step ==
    /\ (pc # "sync" /\ pc' = "sync") => (pc = "gate" /\ last'.step = "gate")
    /\ (pc = "gate" /\ last'.step = "gate" /\ pc' # "exited") =>
          /\ pc' = "sync" <=> (last'.seen = "device" /\ last'.probe = "ok")
          /\ pc' # "sync" =>
                /\ pc' = "gate"
                /\ last'.sleep = "gate"
                /\ now' = After(now, 1)
                /\ serial' = serial

\* C13: the authorization gate.
C13_Gate == [][C13_Step]_vars

\* C13 witness: past the startup window and with no success, a round found
\* the serial in state "device" but the probe printed nothing: the gate
\* slept and polls on.
C13_Witness ==
    /\ Running
    /\ pc = "gate"
    /\ last.step = "gate"
    /\ last.seen = "device"
    /\ last.probe = "silent"
    /\ last.sleep = "gate"
    /\ ~had_success
    /\ Elapsed > Window

Oneshot == env.mode = "oneshot"
Returns0 == pc' = "exited" /\ exit_reason' = "oneshot" /\ exit_code' = 0

C14_Step ==
    Oneshot =>
        /\ pc' = "poll" => pc = "start"
        /\ pc = "exited" => pc' = "exited"
        /\ last'.sleep \notin {"discovery", "refresh"}
        /\ ~last'.checked
        /\ exit_reason' # "deadline"
        /\ last'.step = "poll_empty" => (pc = "poll" /\ Returns0 /\ ~had_success')
        /\ (pc = "sync" /\ last'.step = "sync") =>
              /\ pc' = "exited"
              /\ last'.result # "none" => Returns0
              /\ last'.result = "none" =>
                    (exit_reason' \in {"elevate", "exec"} /\ ~env.host.privileged)
        /\ last'.step = "error" => Returns0
        /\ had_success' => (pc = "sync" /\ last'.result = "true")

ExceptRan == last'.step = "error"

\* C15, in every state: the except clause and the path after a sync_once
\* that returned false take the same decision on every had_success and
\* elapsed time.
C15_SameDecision ==
    \A hs \in BOOLEAN, e \in 0..MaxTime :
        after_error(hs, e, Window) = after_attempt(hs, e, Window)

\* C15, in every step of the daemon in which the except clause runs:
\* had_success is unchanged; with no success so far the process exits with
\* status 0 if the window has elapsed and else sleeps discovery_interval;
\* after a success it sleeps refresh_interval; after the sleep comes a new
\* pass.
C15_Step ==
    (Running /\ ExceptRan) =>
        /\ had_success' = had_success
        /\ (~had_success /\ Elapsed >= Window) =>
              /\ pc' = "exited"
              /\ exit_reason' = "deadline"
              /\ exit_code' = 0
              /\ last'.checked
        /\ (~had_success /\ Elapsed < Window) =>
              /\ pc' = "poll"
              /\ last'.sleep = "discovery"
              /\ last'.checked
              /\ now' = After(now, Discovery)
        /\ had_success =>
              /\ pc' = "poll"
              /\ last'.sleep = "refresh"
              /\ ~last'.checked
              /\ now' = After(now, Refresh)

\* C15: an error is scheduled like a failed attempt.
C15_ErrorAsFailure == [](C15_SameDecision) /\ [][C15_Step]_vars

\* C15 witness: an error raised before the window elapsed and before any
\* success was followed by a discovery sleep.
C15_Witness ==
    /\ Running
    /\ pc = "poll"
    /\ last.step = "error"
    /\ last.sleep = "discovery"
    /\ last.checked
    /\ ~had_success
    /\ Elapsed < Window + Discovery

\* C16, in every step of the daemon: after a success, a poll that finds no
\* device sleeps discovery_interval and polls again, had_success staying
\* true and the deadline not being read.
C16_Step ==
    (Running /\ had_success /\ pc = "poll" /\ last'.step = "poll_empty") =>
        /\ pc' = "poll"
        /\ had_success'
        /\ last'.sleep = "discovery"
        /\ ~last'.checked
        /\ \E busy \in 0..MaxBusy : now' = After(After(now, busy), Discovery)

\* C16: Refreshing with the device gone; after a success the process never
\* exits by the startup window.
C16_DeviceGone == [](had_success => ~GaveUp) /\ [][C16_Step]_vars

\* C16 witness: after a success and past the window, an empty poll was
\* followed by a discovery sleep.
C16_Witness ==
    /\ Running
    /\ had_success
    /\ pc = "poll"
    /\ last.step = "poll_empty"
    /\ last.sleep = "discovery"
    /\ Elapsed - Discovery >= Window

\* C17: a process that gave up did so with status 0, no sync having
\* succeeded, its deadline check having read an elapsed time >= the window.
C17_Deadline ==
    GaveUp =>
        /\ Running
        /\ exit_code = 0
        /\ ~had_success
        /\ last.checked
        /\ Elapsed >= Window

\* C17 witness: the process gave up after a sync attempt that failed once
\* the window had elapsed.
C17_Witness ==
    /\ GaveUp
    /\ last.step = "sync"
    /\ last.result = "false"
    /\ exit_code = 0
    /\ ~had_success
    /\ Elapsed >= Window

----------------------------------------------------------------------------
(* Properties of the command line (SpecCmd). *)

\* C12 as stated: without adb, resync, list and device end with status 127.
C12_AsStated ==
    (pc = "exited" /\ env.mode \in {"resync", "list", "device"} /\ ~env.adb) =>
        exit_code = 127

Started(mode) == pc = "shell" /\ pc' # "shell" /\ env'.mode = mode
Position == PyInt(env'.args[1])
ValidPosition ==
    /\ env'.args # << >>
    /\ Position.ok
    /\ 1 <= Position.val
    /\ Position.val <= Len(devices')

\* C18, in every step: the persisted selection changes only in a "device N"
\* that ends with status 0, to the serial listed at position N, and in a
\* reset, which removes it; "device N" with N an integer in range and reset
\* always do so; "device N" with devices listed and N no integer or out of
\* range ends with status 1; every other step, of the daemon loop, oneshot,
\* resync, list and "device" without an argument, leaves it as it was.
C18_Step ==
    /\ cfg' # cfg =>
          \/ /\ Started("device")
             /\ exit_code' = 0
             /\ ValidPosition
             /\ cfg' = devices'[Position.val].serial
          \/ Started("reset") /\ cfg' = NoSerial
    /\ Started("reset") => (cfg' = NoSerial /\ exit_code' = 0)
    /\ (Started("device") /\ env'.adb /\ ValidPosition) =>
          (exit_code' = 0 /\ cfg' = devices'[Position.val].serial)
    /\ (Started("device") /\ env'.adb /\ devices' # << >> /\ env'.args # << >>
            /\ ~ValidPosition) =>
          (exit_code' = 1 /\ cfg' = cfg)
    /\ (Started("device") /\ env'.args = << >>) => cfg' = cfg
    /\ ~(Started("device") \/ Started("reset")) => cfg' = cfg

\* C18: what changes the persisted selection.
C18_Frame == [][C18_Step]_vars

\* C18 witness: with A selected, "device 3" on a listing of two devices ended
\* with status 1 and A is still selected.
C18_Witness ==
    /\ pc = "exited"
    /\ env.mode = "device"
    /\ env.adb
    /\ env.args = <<<<"3">>>>
    /\ Len(devices) = 2
    /\ exit_code = 1
    /\ cfg = "A"

=============================================================================
